---- MODULE Spec2Model ----
(***************************************************************************)
(* Model of app.py, the ATEX hazardous-zone calculator (Streamlit).        *)
(*                                                                         *)
(* Python floats are IEEE-754 binary64.  The script divides, multiplies,   *)
(* compares and round()s them, and the outcome at a step-table threshold   *)
(* or at a rounding tie depends on the binary value, not on the decimal    *)
(* one.  Binary64 arithmetic is therefore modelled exactly: a finite       *)
(* double is a 53-bit mantissa m (an arbitrary-precision natural, since    *)
(* the model checker's integers have 32 bits) and an exponent e, with      *)
(* value m * 2^e, and every operation rounds to nearest, ties to even.     *)
(***************************************************************************)
EXTENDS Integers, Sequences, FiniteSets, TLC

(***************************************************************************)
(* Naturals wider than the model checker's integers: little-endian         *)
(* sequences of limbs in 0..Limb-1; high zero limbs are allowed.           *)
(***************************************************************************)
LimbBits == 14
Limb == 16384

LimbAt(a, i) == IF i >= 1 /\ i <= Len(a) THEN a[i] ELSE 0

RECURSIVE Carry(_, _, _)
\* the limbs of the number whose digits c may exceed Limb-1; one limb longer
Carry(c, i, k) ==
    IF i > Len(c) THEN <<k>>
    ELSE <<(c[i] + k) % Limb>> \o Carry(c, i + 1, (c[i] + k) \div Limb)

BigMulSmall(a, c) == Carry([i \in 1..Len(a) |-> a[i] * c], 1, 0)

\* a * b for two mantissas of 4 limbs: 8 limbs
BigMulMant(a, b) ==
    Carry([k \in 1..7 |-> a[1] * LimbAt(b, k) + a[2] * LimbAt(b, k - 1)
                          + a[3] * LimbAt(b, k - 2) + a[4] * LimbAt(b, k - 3)], 1, 0)

BigLess(a, b) ==
    \E i \in 1..(Len(a) + Len(b)) :
        /\ LimbAt(a, i) < LimbAt(b, i)
        /\ \A j \in (i + 1)..(Len(a) + Len(b)) : LimbAt(a, j) = LimbAt(b, j)

BigIsZero(a) == \A i \in 1..Len(a) : a[i] = 0

RECURSIVE BigSubFrom(_, _, _, _)
BigSubFrom(a, b, i, borrow) ==
    IF i > Len(a) THEN << >>
    ELSE IF a[i] - LimbAt(b, i) - borrow < 0
    THEN <<a[i] - LimbAt(b, i) - borrow + Limb>> \o BigSubFrom(a, b, i + 1, 1)
    ELSE <<a[i] - LimbAt(b, i) - borrow>> \o BigSubFrom(a, b, i + 1, 0)

\* a - b for a >= b, as many limbs as a
BigSub(a, b) == BigSubFrom(a, b, 1, 0)

RECURSIVE BigDivSmallFrom(_, _, _, _, _)
BigDivSmallFrom(a, d, i, rem, q) ==
    IF i = 0 THEN [q |-> q, r |-> rem]
    ELSE BigDivSmallFrom(a, d, i - 1, (rem * Limb + a[i]) % d,
                         <<(rem * Limb + a[i]) \div d>> \o q)

\* quotient and remainder of a by a small divisor d (d * Limb fits an integer)
BigDivSmall(a, d) == BigDivSmallFrom(a, d, Len(a), 0, << >>)

\* floor(a / 2^s)
BigShr(a, s) ==
    [i \in 1..Len(a) |->
        (LimbAt(a, i + (s \div LimbBits)) \div (2 ^ (s % LimbBits)))
        + (LimbAt(a, i + (s \div LimbBits) + 1) % (2 ^ (s % LimbBits)))
          * (2 ^ (LimbBits - (s % LimbBits)))]

\* bit j of a, bit 0 being the lowest
BigBit(a, j) == (LimbAt(a, (j \div LimbBits) + 1) \div (2 ^ (j % LimbBits))) % 2

\* the n low bits of a are zero
BigLowZero(a, n) ==
    \A i \in 1..Len(a) :
        IF LimbBits * i <= n THEN a[i] = 0
        ELSE IF LimbBits * (i - 1) < n THEN a[i] % (2 ^ (n - LimbBits * (i - 1))) = 0
        ELSE TRUE

IntBitLen(v) == CHOOSE n \in 1..LimbBits : 2 ^ (n - 1) <= v /\ v < 2 ^ n

BigTop(a) == CHOOSE i \in 1..Len(a) : a[i] # 0 /\ \A j \in (i + 1)..Len(a) : a[j] = 0

\* the number of bits of a # 0
BigBitLen(a) == LimbBits * (BigTop(a) - 1) + IntBitLen(a[BigTop(a)])

\* round to nearest, ties to even: is a / 2^s rounded up?  sticky says that
\* a is the truncation of a larger value
BigRoundsUp(a, s, sticky) ==
    /\ s >= 1
    /\ BigBit(a, s - 1) = 1
    /\ (sticky \/ ~BigLowZero(a, s - 1) \/ BigBit(a, s) = 1)

BigAddBit(q, up) == Carry([i \in 1..Len(q) |-> IF i = 1 THEN q[1] + up ELSE q[i]], 1, 0)

\* a / 2^s rounded to nearest, ties to even
BigRoundShr(a, s, sticky) ==
    BigAddBit(BigShr(a, s), IF BigRoundsUp(a, s, sticky) THEN 1 ELSE 0)

\* a as an integer, for a below 2^31
BigToInt(a) == a[1] + Limb * LimbAt(a, 2) + Limb * Limb * LimbAt(a, 3)

\* the largest d with d * b <= cur, for cur < b * Limb and b of 4 limbs with
\* a high limb of at least Limb / 2: the estimate from the two high limbs of
\* cur and the high limb of b is at most 2 too large (Knuth, algorithm D)
BigDigitFrom(cur, b, d0) ==
    IF ~BigLess(cur, BigMulSmall(b, d0)) THEN d0
    ELSE IF ~BigLess(cur, BigMulSmall(b, d0 - 1)) THEN d0 - 1
    ELSE d0 - 2

BigDigit(cur, b) ==
    BigDigitFrom(cur, b,
        IF (cur[5] * Limb + cur[4]) \div b[4] > Limb - 1 THEN Limb - 1
        ELSE (cur[5] * Limb + cur[4]) \div b[4])

RECURSIVE BigDivModFrom(_, _, _, _, _)
RECURSIVE BigDivModTake(_, _, _, _, _, _)
BigDivModFrom(a, b, i, rem, q) ==
    IF i = 0 THEN [q |-> q, r |-> rem]
    ELSE BigDivModTake(a, b, i, <<a[i]>> \o rem, q, BigDigit(<<a[i]>> \o rem, b))

BigDivModTake(a, b, i, cur, q, d) ==
    BigDivModFrom(a, b, i - 1, SubSeq(BigSub(cur, BigMulSmall(b, d)), 1, 4), <<d>> \o q)

\* quotient and remainder of a by b, long division in base Limb
BigDivMod(a, b) == BigDivModFrom(a, b, Len(a), <<0, 0, 0, 0>>, << >>)

(***************************************************************************)
(* Python floats.  A double is a record: k is "fin", "inf" or "nan", neg   *)
(* the sign, and for a finite non-zero double m is the mantissa, 4 limbs   *)
(* holding exactly MantBits bits, and e the exponent, the value being      *)
(* m * 2^e.  Zero has a zero mantissa.  The values of the program stay far *)
(* inside the normal range, so neither overflow nor subnormals are         *)
(* modelled.                                                               *)
(***************************************************************************)
MantBits == 53

FZero == [k |-> "fin", neg |-> FALSE, m |-> <<0, 0, 0, 0>>, e |-> 0]
FInf  == [k |-> "inf", neg |-> FALSE, m |-> <<0, 0, 0, 0>>, e |-> 0]
FNaN  == [k |-> "nan", neg |-> FALSE, m |-> <<0, 0, 0, 0>>, e |-> 0]

FNeg(x) == [x EXCEPT !.neg = ~x.neg]

FIsZero(x) == x.k = "fin" /\ x.m = <<0, 0, 0, 0>>

\* m * 2^e for m of MantBits bits, or of one more after rounding up to 2^MantBits
FPack(m, e, neg) ==
    IF BigBitLen(m) > MantBits
    THEN [k |-> "fin", neg |-> neg, m |-> SubSeq(BigShr(m, 1), 1, 4), e |-> e + 1]
    ELSE [k |-> "fin", neg |-> neg, m |-> SubSeq(m, 1, 4), e |-> e]

\* the double nearest to q * 2^e (ties to even) for q of more than MantBits
\* bits; sticky says that q is the truncation of a larger value
FNorm(q, sticky, e, neg) ==
    FPack(BigRoundShr(q, BigBitLen(q) - MantBits, sticky),
          e + BigBitLen(q) - MantBits, neg)

Abs(n) == IF n < 0 THEN -n ELSE n

FOfQuotient(dm, e, neg) == FNorm(dm.q, dm.r # 0, e, neg)

\* the double a decimal literal or a number_input value n/d denotes:
\* n * 2^70 / d, rounded
Dbl(n, d) ==
    IF n = 0 THEN FZero
    ELSE FOfQuotient(
           BigDivSmall(<<0, 0, 0, 0, 0, Abs(n) % Limb, (Abs(n) \div Limb) % Limb,
                         Abs(n) \div (Limb * Limb)>>, d),
           -70, n < 0)

\* x * y for finite x, y
FMul(x, y) ==
    IF FIsZero(x) \/ FIsZero(y) THEN FZero
    ELSE FNorm(BigMulMant(x.m, y.m), FALSE, x.e + y.e, x.neg # y.neg)

FOfBigQuotient(dm, e, neg) == FNorm(dm.q, ~BigIsZero(dm.r), e, neg)

\* x / y for finite x and finite non-zero y: x.m * 2^56 / y.m, rounded; both
\* are multiplied by 8 to give the divisor a high limb of at least Limb / 2
FDiv(x, y) ==
    IF FIsZero(x) THEN FZero
    ELSE FOfBigQuotient(
           BigDivMod(BigMulSmall(<<0, 0, 0, 0>> \o x.m, 8),
                     SubSeq(BigMulSmall(y.m, 8), 1, 4)),
           x.e - y.e - 56, x.neg # y.neg)

\* magnitudes of two finite doubles: -1, 0, 1
FCmpMag(x, y) ==
    IF FIsZero(x) THEN (IF FIsZero(y) THEN 0 ELSE -1)
    ELSE IF FIsZero(y) THEN 1
    ELSE IF x.e < y.e THEN -1
    ELSE IF x.e > y.e THEN 1
    ELSE IF BigLess(x.m, y.m) THEN -1
    ELSE IF BigLess(y.m, x.m) THEN 1
    ELSE 0

FRank(x) == IF x.k = "inf" THEN (IF x.neg THEN -1 ELSE 1) ELSE 0

\* non-NaN doubles: -1, 0, 1
FCmp(x, y) ==
    IF x.k = "inf" \/ y.k = "inf"
    THEN (IF FRank(x) < FRank(y) THEN -1 ELSE IF FRank(x) > FRank(y) THEN 1 ELSE 0)
    ELSE IF FIsZero(x) /\ FIsZero(y) THEN 0
    ELSE IF x.neg /\ ~FIsZero(x) /\ (FIsZero(y) \/ ~y.neg) THEN -1
    ELSE IF y.neg /\ ~FIsZero(y) /\ (FIsZero(x) \/ ~x.neg) THEN 1
    ELSE IF x.neg THEN FCmpMag(y, x)
    ELSE FCmpMag(x, y)

\* Python's x <= y, x < y, x > y: every comparison with NaN is False
FLeq(x, y) == x.k # "nan" /\ y.k # "nan" /\ FCmp(x, y) <= 0
FLt(x, y)  == x.k # "nan" /\ y.k # "nan" /\ FCmp(x, y) < 0
FGt(x, y)  == FLt(y, x)

\* Python's round(x, nd) of a finite double below 2^MantBits: the decimal
\* with nd places that is nearest to the exact binary value of x, ties to
\* even.  The result is given as the integer number of units of 10^-nd
\* (round(5.544, 2) is 554).
PyRoundMag(x, nd) == BigToInt(BigRoundShr(BigMulSmall(x.m, 10 ^ nd), -x.e, FALSE))

PyRound(x, nd) ==
    IF FIsZero(x) THEN 0
    ELSE IF x.neg THEN -PyRoundMag(x, nd) ELSE PyRoundMag(x, nd)

(***************************************************************************)
(* The program.  A Streamlit script runs from top to bottom once for every *)
(* user interaction; st.session_state["scenarios"] and the files on disk   *)
(* survive between runs, the page is rebuilt by each run.                  *)
(***************************************************************************)
VARIABLES
    gazlar,             \* the gas table load_gas_db() read from gazlar.csv
    ZONE_RADIUS_TABLE,  \* the module-level step table
    scenarios,          \* st.session_state["scenarios"]
    shown,              \* the page the last script run produced
    tmpfiles,           \* the temporary PDF files that exist on disk
    created,            \* how many temporary files were ever created
    input,                \* argument of a direct call of a function
    output,                \* how it ended, Nothing before the call
    memo                \* a call made in the session: [input, output], or Nothing

vars == <<gazlar, ZONE_RADIUS_TABLE, scenarios, shown, tmpfiles, created, input, output, memo>>

None == "None"

\* an optional value is << >> (Python's None, nothing there) or <<v>>
Nothing == << >>
Some(v) == <<v>>

\* how a call ends: with a value or with an exception
Return(v) == [returned |-> v]
Raise(e)  == [raised |-> e]
Raised(r) == "raised" \in DOMAIN r
ZeroDivisionError == "ZeroDivisionError"
IndexError == "IndexError"
ExportError == "ExportError"

\* decimal literals of the script
F0_01 == Dbl(1, 100)
F0_1  == Dbl(1, 10)
F0_3  == Dbl(3, 10)
F0_5  == Dbl(5, 10)
F0_7  == Dbl(7, 10)
F0_8  == Dbl(8, 10)
F1_0  == Dbl(1, 1)
F1_05 == Dbl(105, 100)
F1_1  == Dbl(11, 10)
F1_2  == Dbl(12, 10)
F2    == Dbl(2, 1)
F3_0  == Dbl(3, 1)
F5_0  == Dbl(5, 1)
F8_0  == Dbl(8, 1)
F10   == Dbl(10, 1)
F40   == Dbl(40, 1)

ZoneRadiusTableLiteral ==
    << [D_max |-> F0_01, radius |-> F0_5],
       [D_max |-> F0_1,  radius |-> F1_0],
       [D_max |-> F1_0,  radius |-> F3_0],
       [D_max |-> F10,   radius |-> F5_0],
       [D_max |-> FInf,  radius |-> F8_0] >>

RECURSIVE ScanTableStrict(_, _, _)
\* the loop comparing with < instead of <=
ScanTableStrict(table, D, i) ==
    IF i > Len(table) THEN [radius |-> F0_5, row |-> 0]
    ELSE IF FLt(D, table[i].D_max) THEN [radius |-> table[i].radius, row |-> i]
    ELSE ScanTableStrict(table, D, i + 1)

RECURSIVE ScanTable(_, _, _)
\* lines 41-44: the loop over the rows and the return after it; row is the
\* row whose radius is returned, 0 for the return after the loop
ScanTable(table, D, i) ==
    IF i > Len(table) THEN [radius |-> F0_5, row |-> 0]
    ELSE IF FLeq(D, table[i].D_max) THEN [radius |-> table[i].radius, row |-> i]
    ELSE ScanTable(table, D, i + 1)

\* where get_zone_radius(D) returns, and what
zone_radius_return(D) == ScanTable(ZONE_RADIUS_TABLE, D, 1)

get_zone_radius(D) == zone_radius_return(D).radius

Surekli  == "Surekli"
Birincil == "Birincil"
Ikincil  == "Ikincil"
LeakTypes == {Surekli, Birincil, Ikincil}

\* base_radius *= factor, if the condition holds
Scaled(base_radius, condition, factor) ==
    IF condition THEN FMul(base_radius, factor) ELSE base_radius

\* the dict with the factors of zone 0 and zone 1 exchanged
ZoneDictSwapped(zone0, base_radius, D) ==
    [Zone0Yaricapi   |-> PyRound(IF zone0 THEN FMul(base_radius, F0_7) ELSE FZero, 2),
     Zone1Yaricapi   |-> PyRound(FMul(base_radius, F0_3), 2),
     Zone2Yaricapi   |-> PyRound(base_radius, 2),
     SeyrelmeFaktoru |-> PyRound(D, 4)]

\* the dict with a zone 1 radius that depends on the leak type
ZoneDictGated(zone0, base_radius, D) ==
    [Zone0Yaricapi   |-> PyRound(IF zone0 THEN FMul(base_radius, F0_3) ELSE FZero, 2),
     Zone1Yaricapi   |-> PyRound(FMul(base_radius, IF zone0 THEN F0_8 ELSE F0_7), 2),
     Zone2Yaricapi   |-> PyRound(base_radius, 2),
     SeyrelmeFaktoru |-> PyRound(D, 4)]

\* lines 110-120: the dict returned; the radii are given in hundredths of a
\* metre and the dilution factor in ten-thousandths, as round() left them
ZoneDict(zone0, base_radius, D) ==
    [Zone0Yaricapi   |-> PyRound(IF zone0 THEN FMul(base_radius, F0_3) ELSE FZero, 2),
     Zone1Yaricapi   |-> PyRound(FMul(base_radius, F0_7), 2),
     Zone2Yaricapi   |-> PyRound(base_radius, 2),
     SeyrelmeFaktoru |-> PyRound(D, 4)]

\* lines 92-120, D being known
ZonesFor(row, D) ==
    ZoneDict(row.KacakTipi = Surekli,
             Scaled(Scaled(Scaled(Scaled(Scaled(get_zone_radius(D),
                 row.Grup = "IIC" \/ row.Grup = "IIB",
                 IF row.Grup = "IIC" THEN F1_2 ELSE F1_1),
                 FLt(row.LEL, F2), F1_1),
                 FLt(row.Hacim, F10), F0_8),
                 FGt(row.Sicaklik, F40), F1_05),
                 FGt(row.Basinc, F1_2), F1_1),
             D)

\* the function with a dilution factor of 0 in place of the exception
calculate_zones_default(row) ==
    IF FIsZero(row.HavalandirmaDebisi) THEN Return(ZonesFor(row, FZero))
    ELSE Return(ZonesFor(row, FDiv(row.KacakDebisi, row.HavalandirmaDebisi)))

\* the function reading the gas group of the first stored scenario
calculate_zones_first(row) ==
    IF FIsZero(row.HavalandirmaDebisi) THEN Raise(ZeroDivisionError)
    ELSE Return(ZonesFor(IF scenarios = << >> THEN row
                         ELSE [row EXCEPT !.Grup = scenarios[1].Grup],
                         FDiv(row.KacakDebisi, row.HavalandirmaDebisi)))

\* a Python float divided by 0.0 raises ZeroDivisionError
calculate_zones(row) ==
    IF FIsZero(row.HavalandirmaDebisi) THEN Raise(ZeroDivisionError)
    ELSE Return(ZonesFor(row, FDiv(row.KacakDebisi, row.HavalandirmaDebisi)))

(***************************************************************************)
(* The script run: the form, the submit handler, the results section.      *)
(***************************************************************************)
MaxScenarios == 2
MaxExports == 3

\* st.number_input returns only values inside [min_value, max_value]; v, lo
\* and hi are integers in the unit of the widget's step
number_input(lo, hi, v) == lo <= v /\ v <= hi

\* the options of the gas selectbox: the isim column, and None when it is empty
GasOptions == IF gazlar = << >> THEN {None}
              ELSE {gazlar[i].isim : i \in 1..Len(gazlar)}

EmptyPage ==
    [success |-> Nothing, error |-> None, df |-> << >>, diagram |-> Nothing,
     pdfButton |-> FALSE, clearButton |-> FALSE, download |-> Nothing]

\* plot_zones: the circles drawn, largest first, and the axis limit
plot_zones(zone0, zone1, zone2) ==
    [circles |-> SelectSeq(<< [label |-> "Zone 2", r |-> zone2],
                              [label |-> "Zone 1", r |-> zone1],
                              [label |-> "Zone 0", r |-> zone0] >>,
                           LAMBDA c : c.r > 0),
     lim |-> zone2 + 100]

RECURSIVE ResultsLoop(_, _, _)
RECURSIVE ResultsNext(_, _, _, _)
\* lines 164-167: results.append({**row, **res}) for every stored scenario;
\* an exception of calculate_zones ends the loop and the run
ResultsLoop(scn, i, results) ==
    IF i > Len(scn) THEN Return(results)
    ELSE ResultsNext(scn, i, results, calculate_zones(scn[i]))

ResultsNext(scn, i, results, res) ==
    IF Raised(res) THEN res
    ELSE ResultsLoop(scn, i + 1, Append(results, res.returned @@ scn[i]))

\* lines 168-172: the table, the diagram of the first scenario, the PDF button
ShowTable(page, results) ==
    IF Raised(results) THEN [page EXCEPT !.error = results.raised]
    ELSE [page EXCEPT
            !.df = results.returned,
            !.diagram = Some(plot_zones(results.returned[1].Zone0Yaricapi,
                                        results.returned[1].Zone1Yaricapi,
                                        results.returned[1].Zone2Yaricapi)),
            !.pdfButton = TRUE]

\* lines 161-172: nothing is shown while the list is empty
ShowResults(page, scn) ==
    IF scn = << >> THEN page
    ELSE ShowTable(page, ResultsLoop(scn, 1, << >>))

\* lines 181-183 when the button was not pressed: the button is drawn
ShowClearButton(page) ==
    IF page.pdfButton /\ page.error = None
    THEN [page EXCEPT !.clearButton = TRUE] ELSE page

\* the lookup answering a default record for a name the table does not hold
gas_rows_or_default(gaz_adi) ==
    IF SelectSeq(gazlar, LAMBDA g : g.isim = gaz_adi) = << >>
    THEN <<[isim |-> gaz_adi, grup |-> "IIA", LEL |-> FZero]>>
    ELSE SelectSeq(gazlar, LAMBDA g : g.isim = gaz_adi)

\* line 65: gazlar[gazlar["isim"] == gaz_adi], the rows of the gas table
\* with that name
gas_rows(gaz_adi) == SelectSeq(gazlar, LAMBDA g : g.isim = gaz_adi)

\* "Senaryoyu Ekle": lines 47-81, then the results section.  The numbers
\* are what the widgets return, in units of their steps.
Submit(gaz_adi, leak_type, leak_rate, leak_duration, ventilation_rate, ventilation_type, volume, temp, pressure) ==
    /\ Len(scenarios) < MaxScenarios
    /\ gaz_adi \in GasOptions
    /\ leak_type \in LeakTypes
    /\ number_input(1, 100000, leak_rate)
    /\ number_input(1, 2400, leak_duration)
    /\ number_input(1, 1000000, ventilation_rate)
    /\ ventilation_type \in {"Dogal", "Mekanik"}
    /\ number_input(1, 100000, volume)
    /\ number_input(-400, 800, temp)
    /\ number_input(80, 200, pressure)
    /\ LET matches == gas_rows(gaz_adi)
           scenario_name == <<"Senaryo", Len(scenarios) + 1>>
       IN  IF matches = << >>
           THEN \* .iloc[0] of an empty selection raises IndexError
                /\ scenarios' = scenarios
                /\ shown' = [EmptyPage EXCEPT !.error = IndexError]
           ELSE LET gaz == matches[1]
                    row == [Senaryo            |-> scenario_name,
                            Gaz                |-> gaz_adi,
                            Grup               |-> gaz.grup,
                            LEL                |-> gaz.LEL,
                            KacakTipi          |-> leak_type,
                            KacakDebisi        |-> Dbl(leak_rate, 100),
                            KacakSuresi        |-> Dbl(leak_duration, 100),
                            HavalandirmaDebisi |-> Dbl(ventilation_rate, 100),
                            HavalandirmaTipi   |-> ventilation_type,
                            Hacim              |-> Dbl(volume, 10),
                            Sicaklik           |-> Dbl(temp, 10),
                            Basinc             |-> Dbl(pressure, 100),
                            Not                |-> ""]
                IN  /\ scenarios' = Append(scenarios, row)
                    /\ shown' = ShowClearButton(ShowResults(
                                   [EmptyPage EXCEPT !.success = Some(scenario_name)],
                                   scenarios'))
    /\ ZONE_RADIUS_TABLE' = ZoneRadiusTableLiteral
    /\ UNCHANGED <<gazlar, tmpfiles, created, input, output, memo>>

\* create_pdf_report builds one section per row of the table: the scenario
\* name as heading, then every other column as "label: value"
PdfSections(df) ==
    [i \in 1..Len(df) |->
        [heading |-> df[i].Senaryo,
         lines   |-> [c \in (DOMAIN df[i]) \ {"Senaryo"} |-> df[i][c]]]]

\* where an export can fail: nowhere, while the document is built, when
\* the temporary file is created, in pdf.output, in open, in download_button
ExportOutcomes == {"ok", "build", "tempfile", "output", "open", "download"}

\* lines 175-179 on the page the results section produced: pdf_path is the
\* file NamedTemporaryFile(delete=False) makes, os.remove(pdf_path) is
\* reached only when nothing before it raised
ExportOn(outcome, page) ==
    IF page.error # None
    THEN shown' = page /\ UNCHANGED <<created, tmpfiles>>
    ELSE /\ created' = IF outcome \in {"build", "tempfile"} THEN created ELSE created + 1
         /\ tmpfiles' = IF outcome \in {"output", "open", "download"}
                        THEN tmpfiles \cup {created + 1} ELSE tmpfiles
         /\ shown' = IF outcome = "ok"
                     THEN ShowClearButton(
                            [page EXCEPT !.download = Some(PdfSections(page.df))])
                     ELSE [page EXCEPT !.error = ExportError]

\* the export taking the first scenario off the list
ExportConsuming(outcome) ==
    /\ shown.pdfButton
    /\ created < MaxExports
    /\ outcome \in ExportOutcomes
    /\ ExportOn(outcome, ShowResults(EmptyPage, scenarios))
    /\ ZONE_RADIUS_TABLE' = ZoneRadiusTableLiteral
    /\ scenarios' = Tail(scenarios)
    /\ UNCHANGED <<gazlar, input, output, memo>>

\* "PDF Raporu Indir": the results section, then lines 175-179
Export(outcome) ==
    /\ shown.pdfButton
    /\ created < MaxExports
    /\ outcome \in ExportOutcomes
    /\ ExportOn(outcome, ShowResults(EmptyPage, scenarios))
    /\ ZONE_RADIUS_TABLE' = ZoneRadiusTableLiteral
    /\ UNCHANGED <<gazlar, scenarios, input, output, memo>>

\* the clear without the rerun: the page stays as it was drawn
ClearNoRerun ==
    /\ shown.clearButton
    /\ scenarios' = << >>
    /\ shown' = shown
    /\ ZONE_RADIUS_TABLE' = ZoneRadiusTableLiteral
    /\ UNCHANGED <<gazlar, tmpfiles, created, input, output, memo>>

\* "Tum Senaryolari Temizle": lines 181-183; experimental_rerun starts the
\* script again at once, and that run finds no scenario and shows no result
Clear ==
    /\ shown.clearButton
    /\ scenarios' = << >>
    /\ shown' = ShowClearButton(ShowResults(EmptyPage, scenarios'))
    /\ ZONE_RADIUS_TABLE' = ZoneRadiusTableLiteral
    /\ UNCHANGED <<gazlar, tmpfiles, created, input, output, memo>>

(***************************************************************************)
(* Direct calls of the two functions, as a test or another caller makes    *)
(* them: input is the sequence of arguments, output how each call ended.   *)
(***************************************************************************)
\* output = [get_zone_radius(D) for D in input]
RadiusStep ==
    /\ output = Nothing
    /\ output' = Some([i \in 1..Len(input) |-> zone_radius_return(input[i])])
    /\ UNCHANGED <<gazlar, ZONE_RADIUS_TABLE, scenarios, shown, tmpfiles, created, input, memo>>

\* output = [calculate_zones(row) for row in input]
CalcStep ==
    /\ output = Nothing
    /\ output' = Some([i \in 1..Len(input) |-> calculate_zones(input[i])])
    /\ UNCHANGED <<gazlar, ZONE_RADIUS_TABLE, scenarios, shown, tmpfiles, created, input, memo>>

\* calculate_zones(row) called in the running session; memo keeps the
\* first such call
Call(row) ==
    /\ memo = Nothing
    /\ memo' = Some([arg |-> row, res |-> calculate_zones(row)])
    /\ UNCHANGED <<gazlar, ZONE_RADIUS_TABLE, scenarios, shown, tmpfiles, created, input, output>>

(***************************************************************************)
(* Inputs.                                                                 *)
(***************************************************************************)
\* what the user fills into the form, in units of the widgets' steps
Filling(lt, lr, vr, vol, t, p) ==
    [leak_type |-> lt, leak_rate |-> lr, leak_duration |-> 100,
     ventilation_rate |-> vr, ventilation_type |-> "Dogal",
     volume |-> vol, temp |-> t, pressure |-> p]

\* the scenario record the submit handler builds from a gas and a filling
Row(n, gaz, f) ==
    [Senaryo            |-> <<"Senaryo", n>>,
     Gaz                |-> gaz.isim,
     Grup               |-> gaz.grup,
     LEL                |-> gaz.LEL,
     KacakTipi          |-> f.leak_type,
     KacakDebisi        |-> Dbl(f.leak_rate, 100),
     KacakSuresi        |-> Dbl(f.leak_duration, 100),
     HavalandirmaDebisi |-> Dbl(f.ventilation_rate, 100),
     HavalandirmaTipi   |-> f.ventilation_type,
     Hacim              |-> Dbl(f.volume, 10),
     Sicaklik           |-> Dbl(f.temp, 10),
     Basinc             |-> Dbl(f.pressure, 100),
     Not                |-> ""]

\* gazlar.csv is not part of the repository: a table with two gases, or an
\* empty one (a header line only)
GasTable ==
    << [isim |-> "Metan",    grup |-> "IIA", LEL |-> Dbl(44, 10)],
       [isim |-> "Asetilen", grup |-> "IIC", LEL |-> Dbl(15, 10)] >>

GasTables == {GasTable, << >>}

\* 0 is below the min_value of the ventilation widget
FormInputs ==
    { Filling(Surekli, 7, vr, 1000, 200, 100) : vr \in {0, 70} }

SubmitAny(inputs) ==
    \E gaz_adi \in GasOptions, f \in inputs :
        Submit(gaz_adi, f.leak_type, f.leak_rate, f.leak_duration, f.ventilation_rate,
               f.ventilation_type, f.volume, f.temp, f.pressure)

ExportAny == \E outcome \in ExportOutcomes : Export(outcome)

InitSession ==
    /\ ZONE_RADIUS_TABLE = ZoneRadiusTableLiteral
    /\ scenarios = << >>
    /\ shown = EmptyPage
    /\ tmpfiles = {}
    /\ created = 0

Init ==
    /\ gazlar \in GasTables
    /\ InitSession
    /\ input = Nothing
    /\ output = Nothing
    /\ memo = Nothing

Next == SubmitAny(FormInputs) \/ ExportAny \/ Clear

\* the application: submits, exports and clears in any order
Spec == Init /\ [][Next]_vars

\* the application with a call of calculate_zones between its runs: on a
\* scenario the form can produce, or on one with ventilation rate 0
HistInputs == { Filling(Surekli, 1, vr, 1000, 200, 100) : vr \in {0, 100} }

CallRows ==
    { Row(n, GasTable[g], Filling(Surekli, 1, 100, 1000, 200, 100)) :
        n \in {1, 2}, g \in 1..Len(GasTable) }
    \cup { Row(1, GasTable[1], Filling(Surekli, 1, 0, 1000, 200, 100)) }

CallAny == \E row \in CallRows : Call(row)

ExportSome == \E outcome \in {"ok"} : Export(outcome)

InitHist ==
    /\ gazlar = GasTable
    /\ InitSession
    /\ input = Nothing
    /\ output = Nothing
    /\ memo = Nothing

NextHist == SubmitAny(HistInputs) \/ ExportSome \/ Clear \/ CallAny

SpecHist == InitHist /\ [][NextHist]_vars

\* direct calls of calculate_zones on three scenarios that differ in the
\* leak type only.  The gases, fillings and dilutions give every base radius
\* the function can compute: 5 rows of the table, 3 groups, and each of the
\* four corrections on and off, the off case being the value compared with.
Dilutions ==
    { <<1, 100>>, <<5, 100>>, <<7, 70>>, <<50, 100>>, <<5000, 1000>>,
      <<470, 47>>, <<100000, 100>> }

CalcGases ==
    { [isim |-> "Gaz", grup |-> g, LEL |-> Dbl(l, 10)] :
        g \in {"IIA", "IIB", "IIC"}, l \in {10, 20} }

CalcInputs ==
    { << Row(1, gaz, Filling(Surekli, d[1], d[2], vol, t, p)),
         Row(1, gaz, Filling(Birincil, d[1], d[2], vol, t, p)),
         Row(1, gaz, Filling(Ikincil, d[1], d[2], vol, t, p)) >> :
        gaz \in CalcGases, d \in Dilutions,
        vol \in {50, 100}, t \in {400, 500}, p \in {100, 120, 150} }

InitCalc ==
    /\ gazlar = GasTable
    /\ InitSession
    /\ input \in CalcInputs
    /\ output = Nothing
    /\ memo = Nothing

NextCalc == CalcStep

SpecCalc == InitCalc /\ [][NextCalc]_vars

\* direct calls of get_zone_radius on two values: the thresholds, values
\* around them, quotients the application computes, and what is no quotient
\* of two form values: 0, a negative value, the infinities, NaN
DValues ==
    { Dbl(n, 1000) : n \in {-1000, 0, 1, 9, 10, 11, 99, 100, 101, 999, 1000, 1001,
                            9999, 10000, 10001, 100000} }
    \cup { FDiv(Dbl(7, 100), Dbl(70, 100)), FDiv(Dbl(70, 100), Dbl(7, 100)),
           FDiv(Dbl(470, 100), Dbl(47, 100)), FInf, FNeg(FInf), FNaN }

InitRadius ==
    /\ gazlar = GasTable
    /\ InitSession
    /\ input \in DValues \X DValues
    /\ output = Nothing
    /\ memo = Nothing

NextRadius == RadiusStep

SpecRadius == InitRadius /\ [][NextRadius]_vars

(***************************************************************************)
(* The claims.                                                             *)
(***************************************************************************)
\* the results of the direct calls, once they were made
Results == output[1]

Zone0(r) == r.returned.Zone0Yaricapi
Zone1(r) == r.returned.Zone1Yaricapi
Zone2(r) == r.returned.Zone2Yaricapi
Dilution(r) == r.returned.SeyrelmeFaktoru

\* the values of a scenario are inside the ranges of the form's widgets
InFormRanges(row) ==
    /\ row.KacakTipi \in LeakTypes
    /\ FLeq(F0_01, row.KacakDebisi) /\ FLeq(row.KacakDebisi, Dbl(1000, 1))
    /\ FLeq(F0_01, row.HavalandirmaDebisi) /\ FLeq(row.HavalandirmaDebisi, Dbl(10000, 1))
    /\ FLeq(F0_1, row.Hacim) /\ FLeq(row.Hacim, Dbl(10000, 1))
    /\ FLeq(Dbl(-40, 1), row.Sicaklik) /\ FLeq(row.Sicaklik, Dbl(80, 1))
    /\ FLeq(F0_8, row.Basinc) /\ FLeq(row.Basinc, F2)
    /\ FGt(row.LEL, FZero)

\* C1: for every scenario inside the form's ranges, the rounded values that
\* calculate_zones returns satisfy zone 0 <= zone 1 <= zone 2, and the three
\* radii and the dilution factor are >= 0.
C1_ZonesOrdered ==
    output # Nothing =>
        \A i \in 1..Len(input) :
            InFormRanges(input[i]) =>
                /\ ~Raised(Results[i])
                /\ 0 <= Zone0(Results[i])
                /\ Zone0(Results[i]) <= Zone1(Results[i])
                /\ Zone1(Results[i]) <= Zone2(Results[i])
                /\ 0 <= Dilution(Results[i])

\* a continuous leak inside the form's ranges got three different radii
C1_Witness ==
    /\ output # Nothing
    /\ \E i \in 1..Len(input) :
          /\ InFormRanges(input[i])
          /\ 0 < Zone0(Results[i])
          /\ Zone0(Results[i]) < Zone1(Results[i])
          /\ Zone1(Results[i]) < Zone2(Results[i])

\* the radius the claim gives for a dilution factor
TierRadius(D) ==
    IF FLeq(D, F0_01) THEN F0_5
    ELSE IF FLeq(D, F0_1) THEN F1_0
    ELSE IF FLeq(D, F1_0) THEN F3_0
    ELSE IF FLeq(D, F10) THEN F5_0
    ELSE F8_0

\* C2: get_zone_radius(D) returns 0.5 for D <= 0.01, 1.0 for 0.01 < D <= 0.1,
\* 3.0 for 0.1 < D <= 1.0, 5.0 for 1.0 < D <= 10.0 and 8.0 for D > 10.0, a D
\* equal to a threshold taking that threshold's radius; the radius is
\* non-decreasing in D; the return after the loop is reached for no number
\* (it is for NaN, which compares False with every threshold).
C2_StepTable ==
    output # Nothing =>
        /\ \A i \in 1..Len(input) :
              IF input[i].k = "nan"
              THEN Results[i] = [radius |-> F0_5, row |-> 0]
              ELSE /\ Results[i].row # 0
                   /\ Results[i].radius = TierRadius(input[i])
                   /\ Results[i].radius = ZoneRadiusTableLiteral[Results[i].row].radius
                   /\ \A j \in 1..(Results[i].row - 1) :
                         FGt(input[i], ZoneRadiusTableLiteral[j].D_max)
        /\ \A i, j \in 1..Len(input) :
              FLeq(input[i], input[j]) => FLeq(Results[i].radius, Results[j].radius)

\* D = 0.1 got the radius 1.0 and the next double above 0.1 the radius 3.0
C2_Witness ==
    /\ output # Nothing
    /\ input[1] = F0_1
    /\ Results[1].radius = F1_0
    /\ input[2] = FDiv(Dbl(7, 100), Dbl(70, 100))
    /\ FGt(input[2], F0_1)
    /\ Results[2].radius = F3_0

\* the decimal numbers a scenario was entered with
Hundredths(x) == PyRound(x, 2)
Tenths(x) == PyRound(x, 1)

\* the base radius of the table for the dilution factor a / b, in tenths of
\* a metre, compared exactly
ExactTier(a, b) ==
    IF 100 * a <= b THEN 5
    ELSE IF 10 * a <= b THEN 10
    ELSE IF a <= b THEN 30
    ELSE IF a <= 10 * b THEN 50
    ELSE 80

\* R of the claim, exactly, in units of 10^-7 m: the base radius times the
\* factors whose condition holds
ExactR(row) ==
    ExactTier(Hundredths(row.KacakDebisi), Hundredths(row.HavalandirmaDebisi))
    * (IF row.Grup = "IIC" THEN 12 ELSE IF row.Grup = "IIB" THEN 11 ELSE 10)
    * (IF Tenths(row.LEL) < 20 THEN 11 ELSE 10)
    * (IF Tenths(row.Hacim) < 100 THEN 8 ELSE 10)
    * (IF Tenths(row.Sicaklik) > 400 THEN 105 ELSE 100)
    * (IF Hundredths(row.Basinc) > 120 THEN 11 ELSE 10)

\* z is num / unit rounded to an integer (either neighbour for a tie)
IsRounded(z, num, unit) ==
    2 * (z * unit - num) <= unit /\ 2 * (num - z * unit) <= unit

\* the example of the claim
ExampleRow ==
    Row(1, [isim |-> "Gaz", grup |-> "IIC", LEL |-> Dbl(10, 10)],
        Filling(Birincil, 5000, 1000, 50, 500, 100))

\* C3: calculate_zones returns zone 2 = R, zone 1 = 0.7 R, zone 0 = 0.3 R
\* (continuous leak) or 0, rounded to 2 decimals, and D = leak rate /
\* ventilation rate rounded to 4 decimals, R being the base radius for D
\* times the factors whose condition holds; the example gives 0.00, 3.88,
\* 5.54 and 5.0000.
C3_ExactFormula ==
    output # Nothing =>
        \A i \in 1..Len(input) :
            /\ IsRounded(Zone2(Results[i]), ExactR(input[i]), 100000)
            /\ IsRounded(Zone1(Results[i]), 7 * ExactR(input[i]), 1000000)
            /\ IF input[i].KacakTipi = Surekli
               THEN IsRounded(Zone0(Results[i]), 3 * ExactR(input[i]), 1000000)
               ELSE Zone0(Results[i]) = 0
            /\ IsRounded(Dilution(Results[i]),
                         10000 * Hundredths(input[i].KacakDebisi),
                         Hundredths(input[i].HavalandirmaDebisi))
            /\ input[i] = ExampleRow =>
                  Results[i] = Return([Zone0Yaricapi |-> 0, Zone1Yaricapi |-> 388,
                                       Zone2Yaricapi |-> 554, SeyrelmeFaktoru |-> 50000])

\* the scenarios differ in the leak type only
SameButLeakType(r, q) == [r EXCEPT !.KacakTipi = q.KacakTipi] = q

\* C4: scenarios that differ in the leak type only get the same zone 1
\* radius, zone 2 radius and dilution factor; zone 0 is 0.3 R for a
\* continuous leak (0.3 times the returned zone 2 radius, up to the two
\* roundings) and 0 for a primary or secondary one, which get equal results.
C4_LeakTypeOnlyZone0 ==
    output # Nothing =>
        \A i, j \in 1..Len(input) :
            SameButLeakType(input[i], input[j]) =>
                /\ Zone1(Results[i]) = Zone1(Results[j])
                /\ Zone2(Results[i]) = Zone2(Results[j])
                /\ Dilution(Results[i]) = Dilution(Results[j])
                /\ IF input[i].KacakTipi = Surekli
                   THEN /\ 10 * Zone0(Results[i]) - 3 * Zone2(Results[i]) <= 6
                        /\ 3 * Zone2(Results[i]) - 10 * Zone0(Results[i]) <= 6
                   ELSE Zone0(Results[i]) = 0
                /\ (input[i].KacakTipi # Surekli /\ input[j].KacakTipi # Surekli)
                      => Results[i] = Results[j]

\* a continuous and a primary leak, equal otherwise, were calculated: the
\* first got a zone 0, the second none
C4_Witness ==
    /\ output # Nothing
    /\ \E i, j \in 1..Len(input) :
          /\ SameButLeakType(input[i], input[j])
          /\ input[i].KacakTipi = Surekli
          /\ input[j].KacakTipi = Birincil
          /\ Zone0(Results[i]) > 0
          /\ Zone0(Results[j]) = 0
          /\ Zone2(Results[i]) = Zone2(Results[j])

\* C5: every temporary file create_pdf_report created is gone when the
\* export action has ended, whether it succeeded or failed part-way.
C5_TempFileDisposed == \A f \in 1..created : f \notin tmpfiles

\* a submit step with a gas name the table does not hold
SubmitUnknown ==
    \E gaz_adi \in GasOptions, f \in FormInputs :
        /\ \A g \in 1..Len(gazlar) : gazlar[g].isim # gaz_adi
        /\ Submit(gaz_adi, f.leak_type, f.leak_rate, f.leak_duration,
                  f.ventilation_rate, f.ventilation_type, f.volume, f.temp, f.pressure)

\* every stored scenario holds the group and the LEL of a gas of the table
GasResolved ==
    \A i \in 1..Len(scenarios) :
        \E g \in 1..Len(gazlar) :
            /\ gazlar[g].isim = scenarios[i].Gaz
            /\ gazlar[g].grup = scenarios[i].Grup
            /\ gazlar[g].LEL = scenarios[i].LEL

\* C6: a submit with a gas name that is not in the gas table leaves the
\* scenario list unchanged, shows no success message and no result; no
\* scenario without the properties of a gas of the table is ever stored, so
\* calculate_zones is never called on one.
C6_UnknownGasRejected ==
    /\ []GasResolved
    /\ [][SubmitUnknown =>
            /\ scenarios' = scenarios
            /\ shown'.success = Nothing
            /\ shown'.error = IndexError
            /\ shown'.df = << >>]_vars

\* a submit was rejected: the gas table is empty, the list still is
C6_Witness ==
    /\ gazlar = << >>
    /\ shown.error = IndexError
    /\ scenarios = << >>

\* the table a render of the scenarios scn shows
TableOf(scn) ==
    [i \in 1..Len(scn) |-> calculate_zones(scn[i]).returned @@ scn[i]]

\* C7: the clear empties the scenario list, and the page drawn after it has
\* no results table, no diagram, no report or clear button; at every time
\* the table shown and the report offered hold the scenarios stored at that
\* time and nothing else, each with the results computed from itself.
C7_ClearLeavesNothing ==
    /\ [][Clear => (scenarios' = << >> /\ shown' = EmptyPage)]_vars
    /\ [](/\ shown.df = TableOf(scenarios)
          /\ scenarios = << >> =>
                /\ shown.df = << >>
                /\ shown.diagram = Nothing
                /\ ~shown.pdfButton
                /\ ~shown.clearButton
                /\ shown.download = Nothing
          /\ shown.download # Nothing =>
                shown.download = Some(PdfSections(TableOf(scenarios))))

\* the list was cleared after an export: nothing is shown
C7_Witness ==
    /\ created > 0
    /\ scenarios = << >>
    /\ shown = EmptyPage

\* C8: the scenario list is empty at the start; a step that changes it is a
\* submit that appends one record at the end and leaves the others as they
\* were, or the clear, which empties it; an export and the renders change
\* nothing of it.
C8_OnlySubmitAndClear ==
    /\ scenarios = << >>
    /\ [][\/ scenarios' = scenarios
          \/ /\ SubmitAny(FormInputs)
             /\ Len(scenarios') = Len(scenarios) + 1
             /\ SubSeq(scenarios', 1, Len(scenarios)) = scenarios
          \/ /\ Clear
             /\ scenarios' = << >>]_vars

\* two scenarios are stored in the order of their submits, after an export
C8_Witness ==
    /\ created > 0
    /\ Len(scenarios) = 2
    /\ scenarios[1].Senaryo = <<"Senaryo", 1>>
    /\ scenarios[2].Senaryo = <<"Senaryo", 2>>

\* C9: calculate_zones called on a scenario with ventilation rate 0 raises
\* ZeroDivisionError and returns nothing; every scenario a submit stored
\* has a ventilation rate of at least 0.01, and no render of the
\* application ends with that error.
C9_ZeroVentilationRaises ==
    /\ \A i \in 1..Len(memo) :
          FIsZero(memo[i].arg.HavalandirmaDebisi)
              <=> memo[i].res = Raise(ZeroDivisionError)
    /\ \A i \in 1..Len(scenarios) : FLeq(F0_01, scenarios[i].HavalandirmaDebisi)
    /\ shown.error # ZeroDivisionError

\* the function was called with ventilation rate 0 and raised, while the
\* application holds a scenario
C9_Witness ==
    /\ memo # Nothing
    /\ FIsZero(memo[1].arg.HavalandirmaDebisi)
    /\ Raised(memo[1].res)
    /\ scenarios # << >>

\* the row of the table shown holds the scenario record r
ShowsScenario(line, r) == \A k \in DOMAIN r : line[k] = r[k]

\* C10: a call of calculate_zones and the call a render made on an equal
\* scenario record, at whatever other time of the session, returned equal
\* results.
C10_HistoryIndependent ==
    \A c \in 1..Len(memo), i \in 1..Len(shown.df) :
        ShowsScenario(shown.df[i], memo[c].arg) =>
            /\ ~Raised(memo[c].res)
            /\ \A k \in DOMAIN memo[c].res.returned :
                  shown.df[i][k] = memo[c].res.returned[k]

\* a call and a render of the second scenario both happened, with an export
\* made in the session
C10_Witness ==
    /\ memo # Nothing
    /\ created > 0
    /\ Len(shown.df) = 2
    /\ ShowsScenario(shown.df[2], memo[1].arg)

====
